---- MODULE Spec2Model ----
(***************************************************************************)
(* UVM Master Class: the App's walkthrough cursor and explanation fetch    *)
(* (src/App.tsx, src/components/UvmDiagram.tsx), and the tutor chat        *)
(* (ChatInterface in src/types.ts, streamChatResponse in                   *)
(* src/unnamed/part_000).                                                  *)
(*                                                                         *)
(* React runs each event handler to completion on the state of the last    *)
(* render, applies its batched set-state calls, re-renders and runs the    *)
(* effects whose dependencies changed before the next event is handled.    *)
(* One action is therefore one UI event: the element's guard in the JSX,   *)
(* the handler, and the effect that follows the re-render.                 *)
(***************************************************************************)
EXTENDS Integers, Sequences, FiniteSets, Bags, TLC

VARIABLES
    \* ---- App (src/App.tsx) ----
    activeComponent,      \* useState<UvmComponentType>(DRIVER)
    simulationStepIndex,  \* useState<number>(-1): the walkthrough cursor
    viewMode,             \* useState<ViewMode>('architecture')
    aiData,               \* useState<AiResponse | null>(null)
    isLoading,            \* useState<boolean>(false)
    pending,              \* bag of components whose getComponentExplanation is awaited
    lastEvent,            \* the UI event (or promise resolution) handled last
    \* ---- ChatInterface (src/types.ts) ----
    showChat,             \* App: useState<boolean>(true); mounts the ChatInterface
    messages,             \* useState<ChatMessage[]>([])
    input,                \* useState('')
    isStreaming,          \* useState(false)
    clock,                \* Date.now()
    mount,                \* which mounting of ChatInterface is on screen
    runs,                 \* the handleSubmit invocations suspended at an await
    chatEvent,            \* what the chat did last
    \* ---- SequenceBuilder (src/components/SequenceBuilder.tsx) ----
    steps,                \* useState<SequenceStep[]>([])
    currentStep,          \* useState<Partial<SequenceStep>>({WRITE, 'h1000, 'hFF, 0})
    generatedCode,        \* useState(''), set by the effect on [steps]
    builderEvent          \* what the builder did last

appVars == <<activeComponent, simulationStepIndex, viewMode, aiData, isLoading,
             pending, lastEvent>>
chatVars == <<showChat, messages, input, isStreaming, clock, mount, runs, chatEvent>>
builderVars == <<steps, currentStep, generatedCode, builderEvent>>
vars == <<appVars, chatVars, builderVars>>

(***************************************************************************)
(* Bounds of the model.                                                    *)
(***************************************************************************)
\* explanation requests that may be awaited at once
MaxPending == 2
\* fragments one chat stream delivers
MaxChunks == 2
\* largest value Date.now() takes
MaxClock == 1
\* messages one transcript holds
MaxMessages == 4
\* times the ChatInterface is mounted
MaxMounts == 2
\* steps the sequence-builder list holds
MaxSteps == 2
\* steps the list holds while the address and data inputs are exercised
MaxFormSteps == 1
\* steps of the lists generateCode is applied to
MaxCompileSteps == 2

(***************************************************************************)
(* src/types.ts: UvmComponentType                                          *)
(***************************************************************************)
UvmComponentType ==
    {"Top", "Test", "Environment", "Agent", "Sequencer", "Driver", "Monitor",
     "Scoreboard", "DUT", "Interface", "Sequence", "Config DB"}

\* The blocks of the diagram that carry an onClick (Config DB has none).
DiagramBlocks ==
    {"Top", "Test", "Environment", "Agent", "Sequencer", "Sequence", "Driver",
     "Monitor", "Scoreboard", "Interface", "DUT"}

ViewModes == {"architecture", "builder"}

(***************************************************************************)
(* src/App.tsx: WALKTHROUGH_STEPS (id and component of each step; the      *)
(* texts are display only).  TLA+ sequences start at 1: step i of the      *)
(* source is WALKTHROUGH_STEPS[i + 1].                                     *)
(***************************************************************************)
WALKTHROUGH_STEPS ==
    << [id |-> 0, component |-> "Sequence"],
       [id |-> 1, component |-> "Sequencer"],
       [id |-> 2, component |-> "Driver"],
       [id |-> 3, component |-> "Interface"],
       [id |-> 4, component |-> "DUT"],
       [id |-> 5, component |-> "Monitor"],
       [id |-> 6, component |-> "Scoreboard"] >>

\* WALKTHROUGH_STEPS[i].component
StepComponent(i) == WALKTHROUGH_STEPS[i + 1].component

\* totalSteps={WALKTHROUGH_STEPS.length}
totalSteps == Len(WALKTHROUGH_STEPS)

\* UvmDiagram: const isSimulating = simulationStepIndex >= 0
isSimulating == simulationStepIndex >= 0

(***************************************************************************)
(* Texts are sequences of characters and of fixed pieces of text; the      *)
(* string they stand for is the concatenation of their elements.           *)
(***************************************************************************)
\* Number.prototype.toString: the decimal digits of a natural number
Digit(d) == <<"0", "1", "2", "3", "4", "5", "6", "7", "8", "9">>[d + 1]

RECURSIVE toString(_)
toString(n) ==
    IF n < 10 THEN <<Digit(n)>>
    ELSE toString(n \div 10) \o <<Digit(n % 10)>>

\* the texts of a sequence of fragments, one after the other
RECURSIVE Concat(_)
Concat(fragments) ==
    IF fragments = <<>> THEN <<>>
    ELSE Head(fragments) \o Concat(Tail(fragments))

(***************************************************************************)
(* src/types.ts: TransactionKind; src/components/SequenceBuilder.tsx: the  *)
(* form, the step list and generateCode.                                   *)
(***************************************************************************)
TransactionKind == {"READ", "WRITE", "IDLE"}

\* lines 6-11: the form as useState initialises it
InitialCurrentStep ==
    [kind |-> "WRITE",
     addr |-> <<"'", "h", "1", "0", "0", "0">>,
     data |-> <<"'", "h", "F", "F">>,
     delay |-> 0]

\* what the user leaves in the address and data inputs (lines 117-122, 128-133)
AddrTexts == { <<>>, InitialCurrentStep.addr }
DataTexts == { <<>>, InitialCurrentStep.data }
\* what the number input hands to onChange (line 144): the empty string for
\* an empty or invalid entry, otherwise the number as typed
DelayTexts == { <<>>, <<"1", "0">>, <<"-", "3">> }

IsDigit(c) == c \in {"0", "1", "2", "3", "4", "5", "6", "7", "8", "9"}

DigitValue(c) == CHOOSE d \in 0..9 : Digit(d) = c

\* the value of the longest prefix of t made of digits, after the digits acc
RECURSIVE parseDigits(_, _)
parseDigits(t, acc) ==
    IF t = <<>> \/ ~IsDigit(Head(t)) THEN acc
    ELSE parseDigits(Tail(t), 10 * acc + DigitValue(Head(t)))

NaN == [nan |-> TRUE, value |-> 0]
Number(n) == [nan |-> FALSE, value |-> n]

\* parseInt (line 144): an optional sign, then the digits up to the first
\* character that is not one; NaN when there is no digit
parseInt(t) ==
    LET negative == t # <<>> /\ Head(t) = "-"
        signed == t # <<>> /\ Head(t) \in {"-", "+"}
        digits == IF signed THEN Tail(t) ELSE t
    IN  IF digits = <<>> \/ ~IsDigit(Head(digits)) THEN NaN
        ELSE IF negative THEN Number(0 - parseDigits(digits, 0))
        ELSE Number(parseDigits(digits, 0))

\* line 144: parseInt(e.target.value) || 0  (NaN and 0 are falsy)
delayOfInput(t) ==
    LET parsed == parseInt(t)
    IN  IF parsed.nan \/ parsed.value = 0 THEN 0 ELSE parsed.value

\* ${n} of a number in a template literal: the decimal digits, after a minus sign when negative
numberToString(n) ==
    IF n < 0 THEN <<"-">> \o toString(0 - n) ELSE toString(n)

\* lines 15-21: the step addStep builds from the form at clock value now
newStep(form, now) ==
    [id |-> toString(now),
     kind |-> form.kind,
     addr |-> IF form.addr = <<>> THEN <<"0">> ELSE form.addr,
     data |-> IF form.data = <<>> THEN <<"0">> ELSE form.data,
     delay |-> form.delay]

\* mutant: the new step is put in front
C16Mut_addStep(list, form, now) == <<newStep(form, now)>> \o list

\* line 22: [...steps, newStep]
addStep(list, form, now) == Append(list, newStep(form, now))

\* mutant: the filter keeps the steps it should drop
C15Mut_removeStep(list, id) == SelectSeq(list, LAMBDA s : s.id = id)

\* line 26: steps.filter(s => s.id !== id)
removeStep(list, id) == SelectSeq(list, LAMBDA s : s.id # id)

\* the grave accent of lines 31 and 52, a character a TLA+ string cannot hold
Backtick == "<grave accent>"

\* lines 30-33
Preamble ==
    << "class my_custom_seq extends uvm_sequence #(my_transaction);", "\n",
       "  ", Backtick, "uvm_object_utils(my_custom_seq)", "\n", "\n",
       "  function new(string name = \"my_custom_seq\");", "\n",
       "    super.new(name);", "\n",
       "  endfunction", "\n", "\n",
       "  virtual task body();", "\n",
       "    my_transaction req;", "\n", "\n" >>

\* line 36
Placeholder == << "    // Add transactions to see code here", "\n" >>

\* line 61
Closing == << "  endtask", "\n", "endclass" >>

\* mutant: the comment carries the 0-based index
C24Mut_stepComment(step, index) ==
    <<"    // Step ">> \o numberToString(index) \o <<": ", step.kind, "\n">>

\* line 40: the comment that opens the block of the step at 0-based index
stepComment(step, index) ==
    <<"    // Step ">> \o numberToString(index + 1) \o <<": ", step.kind, "\n">>

\* mutant: the wait is the delay as stored, with no default
C20Mut_idleBlock(step) ==
    <<"    #">> \o numberToString(step.delay) \o <<";", "\n", "\n">>

\* line 42: #${step.delay || 10}; and two line ends
idleBlock(step) ==
    <<"    #">> \o numberToString(IF step.delay = 0 THEN 10 ELSE step.delay)
        \o <<";", "\n", "\n">>

\* mutant: the block leaves the address constraint out
C19Mut_transactionBlock(step) ==
    << "    req = my_transaction::type_id::create(\"req\");", "\n",
       "    start_item(req);", "\n",
       "    if (!req.randomize() with {", "\n" >>
    \o <<"      kind == ", step.kind, ";", "\n">>
    \o (IF step.kind = "WRITE"
        THEN <<"      data == ">> \o step.data \o <<";", "\n">>
        ELSE <<>>)
    \o << "    }) ", Backtick, "uvm_error(\"SEQ\", \"Randomization failed\")", "\n",
          "    finish_item(req);", "\n" >>
    \o (IF step.delay > 0
        THEN <<"    #">> \o numberToString(step.delay) \o <<";", "\n">>
        ELSE <<>>)
    \o <<"\n">>

\* mutant: the wait line is written whatever the delay
C21Mut_transactionBlock(step) ==
    << "    req = my_transaction::type_id::create(\"req\");", "\n",
       "    start_item(req);", "\n",
       "    if (!req.randomize() with {", "\n" >>
    \o <<"      addr == ">> \o step.addr \o <<";", "\n">>
    \o <<"      kind == ", step.kind, ";", "\n">>
    \o (IF step.kind = "WRITE"
        THEN <<"      data == ">> \o step.data \o <<";", "\n">>
        ELSE <<>>)
    \o << "    }) ", Backtick, "uvm_error(\"SEQ\", \"Randomization failed\")", "\n",
          "    finish_item(req);", "\n" >>
    \o <<"    #">> \o numberToString(step.delay) \o <<";", "\n">>
    \o <<"\n">>

\* mutant: the data constraint is written for READ steps too
C22Mut_transactionBlock(step) ==
    << "    req = my_transaction::type_id::create(\"req\");", "\n",
       "    start_item(req);", "\n",
       "    if (!req.randomize() with {", "\n" >>
    \o <<"      addr == ">> \o step.addr \o <<";", "\n">>
    \o <<"      kind == ", step.kind, ";", "\n">>
    \o <<"      data == ">> \o step.data \o <<";", "\n">>
    \o << "    }) ", Backtick, "uvm_error(\"SEQ\", \"Randomization failed\")", "\n",
          "    finish_item(req);", "\n" >>
    \o (IF step.delay > 0
        THEN <<"    #">> \o numberToString(step.delay) \o <<";", "\n">>
        ELSE <<>>)
    \o <<"\n">>

\* lines 44-57
transactionBlock(step) ==
    << "    req = my_transaction::type_id::create(\"req\");", "\n",
       "    start_item(req);", "\n",
       "    if (!req.randomize() with {", "\n" >>
    \o <<"      addr == ">> \o step.addr \o <<";", "\n">>
    \o <<"      kind == ", step.kind, ";", "\n">>
    \o (IF step.kind = "WRITE"
        THEN <<"      data == ">> \o step.data \o <<";", "\n">>
        ELSE <<>>)
    \o << "    }) ", Backtick, "uvm_error(\"SEQ\", \"Randomization failed\")", "\n",
          "    finish_item(req);", "\n" >>
    \o (IF step.delay > 0
        THEN <<"    #">> \o numberToString(step.delay) \o <<";", "\n">>
        ELSE <<>>)
    \o <<"\n">>

\* lines 40-58: what one iteration of steps.forEach appends
stepBlock(step, index) ==
    stepComment(step, index)
    \o (IF step.kind = "IDLE" THEN idleBlock(step) ELSE transactionBlock(step))

\* mutant: the placeholder comment is written whatever the list holds
C23Mut_generateCode(list) ==
    Preamble
    \o Placeholder
    \o Concat([i \in 1..Len(list) |-> stepBlock(list[i], i - 1)])
    \o Closing

\* lines 29-63
generateCode(list) ==
    Preamble
    \o (IF Len(list) = 0 THEN Placeholder ELSE <<>>)
    \o Concat([i \in 1..Len(list) |-> stepBlock(list[i], i - 1)])
    \o Closing

BuilderEvent(name, arg) == [name |-> name, arg |-> arg]

(***************************************************************************)
(* src/unnamed/part_000: getComponentExplanation.  It resolves to the      *)
(* explanation parsed from the collaborator's answer, or, when the         *)
(* collaborator throws, to the fixed error pair; it never rejects.         *)
(***************************************************************************)
NullData == [kind |-> "null", component |-> "none"]
ErrorData == [kind |-> "error", component |-> "none"]
\* mutant: no catch block, a collaborator failure rejects the returned promise
C13Mut_getComponentExplanation(component, fails) ==
    IF fails
    THEN [kind |-> "rejected", component |-> "none"]
    ELSE [kind |-> "explanation", component |-> component]

getComponentExplanation(component, fails) ==
    IF fails THEN ErrorData ELSE [kind |-> "explanation", component |-> component]

Event(name, arg) == [name |-> name, arg |-> arg]

(***************************************************************************)
(* App: useEffect(fetchData, [activeComponent, viewMode,                   *)
(* simulationStepIndex]).  After the re-render that follows a handler,     *)
(* the effect runs when a dependency changed; it starts a fetch only in    *)
(* architecture view with the walkthrough inactive.  Used inside a         *)
(* handler's action, after the handler set the primed dependencies.        *)
(***************************************************************************)
DepsChanged ==
    <<activeComponent', viewMode', simulationStepIndex'>>
        # <<activeComponent, viewMode, simulationStepIndex>>

\* mutant: the effect does not look at the cursor
C28Mut_FetchStarts ==
    DepsChanged /\ viewMode' = "architecture"

FetchStarts ==
    DepsChanged /\ viewMode' = "architecture" /\ simulationStepIndex' = -1

fetchDataEffect ==
    IF FetchStarts
    THEN /\ BagCardinality(pending) < MaxPending
         /\ isLoading' = TRUE
         /\ pending' = pending (+) SetToBag({activeComponent'})
         /\ UNCHANGED aiData
    ELSE UNCHANGED <<isLoading, pending, aiData>>

(***************************************************************************)
(* src/App.tsx: the walkthrough controls (the handlers alone: what they    *)
(* set, on the state of the render they close over).                       *)
(***************************************************************************)
\* mutant: start moves the cursor and forgets the active component
C6Mut_startSimulation ==
    /\ simulationStepIndex' = 0
    /\ UNCHANGED activeComponent

startSimulation ==
    /\ simulationStepIndex' = 0
    /\ activeComponent' = StepComponent(0)

\* mutant: next shows the component of the step it leaves
C4Mut_nextStep ==
    IF simulationStepIndex < Len(WALKTHROUGH_STEPS) - 1
    THEN /\ simulationStepIndex' = simulationStepIndex + 1
         /\ activeComponent' = StepComponent(simulationStepIndex)
    ELSE UNCHANGED <<simulationStepIndex, activeComponent>>

nextStep ==
    IF simulationStepIndex < Len(WALKTHROUGH_STEPS) - 1
    THEN LET next == simulationStepIndex + 1
         IN /\ simulationStepIndex' = next
            /\ activeComponent' = StepComponent(next)
    ELSE UNCHANGED <<simulationStepIndex, activeComponent>>

\* mutant: prev moves the cursor and forgets the active component
C5Mut_prevStep ==
    IF simulationStepIndex > 0
    THEN /\ simulationStepIndex' = simulationStepIndex - 1
         /\ UNCHANGED activeComponent
    ELSE UNCHANGED <<simulationStepIndex, activeComponent>>

prevStep ==
    IF simulationStepIndex > 0
    THEN LET prev == simulationStepIndex - 1
         IN /\ simulationStepIndex' = prev
            /\ activeComponent' = StepComponent(prev)
    ELSE UNCHANGED <<simulationStepIndex, activeComponent>>

\* mutant: stop also puts the initial component back
C7Mut_stopSimulation ==
    /\ simulationStepIndex' = -1
    /\ activeComponent' = "Driver"

stopSimulation ==
    /\ simulationStepIndex' = -1
    /\ UNCHANGED activeComponent

\* mutant: the view change does not reset the walkthrough
C1Mut_handleViewChange(mode) ==
    /\ viewMode' = mode
    /\ UNCHANGED simulationStepIndex
    /\ IF mode = "builder"
       THEN activeComponent' = "Sequence"
       ELSE IF activeComponent = "Sequence"
            THEN activeComponent' = "Driver"
            ELSE UNCHANGED activeComponent

\* mutant: SEQUENCE stays active when the view changes to architecture
C29Mut_handleViewChange(mode) ==
    /\ viewMode' = mode
    /\ simulationStepIndex' = -1
    /\ IF mode = "builder"
       THEN activeComponent' = "Sequence"
       ELSE UNCHANGED activeComponent

\* src/App.tsx: handleViewChange
handleViewChange(mode) ==
    /\ viewMode' = mode
    /\ simulationStepIndex' = -1
    /\ IF mode = "builder"
       THEN activeComponent' = "Sequence"
       ELSE IF activeComponent = "Sequence"
            THEN activeComponent' = "Driver"
            ELSE UNCHANGED activeComponent

\* mutant: the click handlers lack the !isSimulating guard
C2Mut_onSelectComponent(type) ==
    /\ activeComponent' = type
    /\ UNCHANGED simulationStepIndex

\* UvmDiagram: onClick={() => !isSimulating && onSelectComponent(type)},
\* with onSelectComponent={setActiveComponent}
\* mutant: the click handlers carry the guard the wrong way round
C27Mut_onSelectComponent(type) ==
    /\ IF isSimulating
       THEN activeComponent' = type
       ELSE UNCHANGED activeComponent
    /\ UNCHANGED simulationStepIndex

onSelectComponent(type) ==
    /\ IF ~isSimulating
       THEN activeComponent' = type
       ELSE UNCHANGED activeComponent
    /\ UNCHANGED simulationStepIndex

(***************************************************************************)
(* The UI events of the App.  The UvmDiagram is rendered in architecture   *)
(* view only; it renders the Walkthrough Flow button while not simulating  *)
(* and the stop/prev/next buttons while simulating; a disabled button      *)
(* dispatches no click.                                                    *)
(***************************************************************************)
\* UvmDiagram lines 63-70: the Walkthrough Flow button
ClickWalkthroughFlow ==
    /\ viewMode = "architecture"
    /\ ~isSimulating
    /\ startSimulation
    /\ UNCHANGED viewMode
    /\ fetchDataEffect
    /\ lastEvent' = Event("start", "none")
    /\ UNCHANGED <<chatVars, builderVars>>

\* mutant: the Next button is never disabled and the handler compares the
\* cursor with the length instead of length - 1; past the end the handler
\* has set the cursor when reading the missing step throws
C3Mut_ClickNext ==
    /\ viewMode = "architecture"
    /\ isSimulating
    /\ IF simulationStepIndex < Len(WALKTHROUGH_STEPS)
       THEN LET next == simulationStepIndex + 1
            IN /\ simulationStepIndex' = next
               /\ IF next < Len(WALKTHROUGH_STEPS)
                  THEN activeComponent' = StepComponent(next)
                  ELSE UNCHANGED activeComponent
       ELSE UNCHANGED <<simulationStepIndex, activeComponent>>
    /\ UNCHANGED viewMode
    /\ fetchDataEffect
    /\ lastEvent' = Event("next", "none")
    /\ UNCHANGED <<chatVars, builderVars>>

\* mutant: the Next button is rendered whether or not the walkthrough runs
C8Mut_ClickNext ==
    /\ viewMode = "architecture"
    /\ IF simulationStepIndex = totalSteps - 1
       THEN UNCHANGED <<simulationStepIndex, activeComponent>>
       ELSE nextStep
    /\ UNCHANGED viewMode
    /\ fetchDataEffect
    /\ lastEvent' = Event("next", "none")
    /\ UNCHANGED <<chatVars, builderVars>>

\* UvmDiagram lines 83-85: the Next button, disabled at the last step
ClickNext ==
    /\ viewMode = "architecture"
    /\ isSimulating
    /\ IF simulationStepIndex = totalSteps - 1
       THEN UNCHANGED <<simulationStepIndex, activeComponent>>
       ELSE nextStep
    /\ UNCHANGED viewMode
    /\ fetchDataEffect
    /\ lastEvent' = Event("next", "none")
    /\ UNCHANGED <<chatVars, builderVars>>

\* UvmDiagram lines 77-79: the Prev button, disabled at step 0
ClickPrev ==
    /\ viewMode = "architecture"
    /\ isSimulating
    /\ IF simulationStepIndex = 0
       THEN UNCHANGED <<simulationStepIndex, activeComponent>>
       ELSE prevStep
    /\ UNCHANGED viewMode
    /\ fetchDataEffect
    /\ lastEvent' = Event("prev", "none")
    /\ UNCHANGED <<chatVars, builderVars>>

\* UvmDiagram lines 73-75: the stop button
ClickStop ==
    /\ viewMode = "architecture"
    /\ isSimulating
    /\ stopSimulation
    /\ UNCHANGED viewMode
    /\ fetchDataEffect
    /\ lastEvent' = Event("stop", "none")
    /\ UNCHANGED <<chatVars, builderVars>>

\* UvmDiagram lines 110-160: a click on a block of the diagram (the nested
\* Seq Item block stops propagation, so exactly one handler runs per click)
ClickBlock ==
    \E type \in DiagramBlocks :
        /\ viewMode = "architecture"
        /\ onSelectComponent(type)
        /\ UNCHANGED viewMode
        /\ fetchDataEffect
        /\ lastEvent' = Event("select", type)
        /\ UNCHANGED <<chatVars, builderVars>>

\* App lines 240-264: <SequenceBuilder /> is rendered while viewMode is not
\* 'architecture'.  A mounting starts from the useState initial values and
\* runs the effect once; while the builder is not mounted its variables hold
\* the values the next mounting starts with.
SequenceBuilderRenders ==
    IF viewMode = "builder" /\ viewMode' = "builder"
    THEN UNCHANGED builderVars
    ELSE /\ steps' = <<>>
         /\ currentStep' = InitialCurrentStep
         /\ generatedCode' = generateCode(<<>>)
         /\ builderEvent' = BuilderEvent("mount", <<>>)

\* App lines 197-216: the Architecture / Sequence Builder buttons
ClickView ==
    \E mode \in ViewModes :
        /\ handleViewChange(mode)
        /\ fetchDataEffect
        /\ lastEvent' = Event("view", mode)
        /\ SequenceBuilderRenders
        /\ UNCHANGED chatVars

\* App lines 137-139: an awaited getComponentExplanation resolves; the
\* requests outstanding are answered in any order
ExplanationArrives ==
    \E component \in BagToSet(pending), fails \in BOOLEAN :
        /\ LET data == getComponentExplanation(component, fails)
           IN  IF data.kind = "rejected"
               THEN UNCHANGED <<aiData, isLoading>>
               ELSE /\ aiData' = data
                    /\ isLoading' = FALSE
        /\ pending' = pending (-) SetToBag({component})
        /\ UNCHANGED <<activeComponent, simulationStepIndex, viewMode>>
        /\ lastEvent' = Event("response", component)
        /\ UNCHANGED <<chatVars, builderVars>>

(***************************************************************************)
(* ChatInterface (src/types.ts lines 58-193).  Texts are sequences of      *)
(* characters; " " stands for white space.                                 *)
(***************************************************************************)
\* what the user types into the input: nothing, white space only, a question
InputTexts == { <<>>, <<" ">>, <<"q">> }

\* String.prototype.trim: the text without its leading and trailing white space
RECURSIVE trim(_)
trim(t) ==
    IF t = <<>> THEN <<>>
    ELSE IF Head(t) = " " THEN trim(Tail(t))
    ELSE IF t[Len(t)] = " " THEN trim(SubSeq(t, 1, Len(t) - 1))
    ELSE t

\* line 126: the fixed text shown when the tutor fails
ErrorText == <<"Error connecting to AI tutor.">>

\* src/unnamed/part_000 line 79: yield chunk.text || ''
\* (a chunk of the collaborator may carry no text)
CollaboratorChunks ==
    { [hasText |-> FALSE, text |-> <<>>],
      [hasText |-> TRUE, text |-> <<>>],
      [hasText |-> TRUE, text |-> <<"a">>],
      [hasText |-> TRUE, text |-> <<"b">>] }

yieldText(chunk) == IF chunk.hasText /\ chunk.text # <<>> THEN chunk.text ELSE <<>>

\* mutant: fullText = chunk, the text received before is dropped
C10Mut_appendChunk(fullText, chunk) == chunk

\* line 115: fullText += chunk
appendChunk(fullText, chunk) == fullText \o chunk

\* lines 116-120 and 124-128: prev.map(msg => msg.id === modelMsgId
\*   ? { ...msg, content, isLoading: false } : msg)
updateById(msgs, modelMsgId, content) ==
    [i \in DOMAIN msgs |->
        IF msgs[i].id = modelMsgId
        THEN [msgs[i] EXCEPT !.content = content, !.isLoading = FALSE]
        ELSE msgs[i]]

ChatEvent(name, live) == [name |-> name, live |-> live]

\* a suspended handleSubmit writes to the view it was started from; React
\* drops a state update of a component that is no longer mounted
Live(run) == showChat /\ run.mount = mount

\* line 85: if (!input.trim() || isStreaming) return;
handleSubmitReturnsEarly == trim(input) = <<>> \/ isStreaming

\* line 182: the submit button, disabled={!input.trim() || isStreaming}
submitDisabled == trim(input) = <<>> \/ isStreaming

\* mutant: setIsStreaming(true) is missing
C9Mut_acceptSubmission(t1, t2) ==
    LET userMsg == [id |-> toString(t1), role |-> "user", content |-> input,
                    isLoading |-> FALSE]
        modelMsgId == toString(t2 + 1)
        modelMsgPlaceholder == [id |-> modelMsgId, role |-> "model",
                                content |-> <<>>, isLoading |-> TRUE]
    IN /\ messages' = Append(Append(messages, userMsg), modelMsgPlaceholder)
       /\ input' = <<>>
       /\ UNCHANGED isStreaming
       /\ clock' = t2
       /\ runs' = runs \cup {[mount |-> mount, modelMsgId |-> modelMsgId,
                              pos |-> Len(messages) + 2, pc |-> "await",
                              fullText |-> <<>>, received |-> <<>>]}
       /\ chatEvent' = ChatEvent("accepted", TRUE)

\* lines 87-110: the submission is accepted.  t1 and t2 are the two readings
\* of Date.now(); the run suspends at the await of streamChatResponse.
acceptSubmission(t1, t2) ==
    LET userMsg == [id |-> toString(t1), role |-> "user", content |-> input,
                    isLoading |-> FALSE]
        modelMsgId == toString(t2 + 1)
        modelMsgPlaceholder == [id |-> modelMsgId, role |-> "model",
                                content |-> <<>>, isLoading |-> TRUE]
    IN /\ messages' = Append(Append(messages, userMsg), modelMsgPlaceholder)
       /\ input' = <<>>
       /\ isStreaming' = TRUE
       /\ clock' = t2
       /\ runs' = runs \cup {[mount |-> mount, modelMsgId |-> modelMsgId,
                              pos |-> Len(messages) + 2, pc |-> "await",
                              fullText |-> <<>>, received |-> <<>>]}
       /\ chatEvent' = ChatEvent("accepted", TRUE)

\* line 175: onChange={(e) => setInput(e.target.value)}; line 178: the input
\* is disabled while streaming
TypeInput ==
    \E text \in InputTexts :
        /\ showChat
        /\ ~isStreaming
        /\ input' = text
        /\ chatEvent' = ChatEvent("type", TRUE)
        /\ UNCHANGED <<showChat, messages, isStreaming, clock, mount, runs>>
        /\ UNCHANGED <<appVars, builderVars>>

\* lines 83-110 and 170-186: the form is submitted (the button is clicked or
\* Enter is pressed); a disabled button submits nothing
Submit ==
    /\ showChat
    /\ IF submitDisabled \/ handleSubmitReturnsEarly
       THEN /\ chatEvent' = ChatEvent("rejected", TRUE)
            /\ UNCHANGED <<messages, input, isStreaming, clock, runs>>
       ELSE /\ Len(messages) + 2 <= MaxMessages
            /\ \E t1 \in clock .. MaxClock :
                   \E t2 \in t1 .. MaxClock : acceptSubmission(t1, t2)
    /\ UNCHANGED <<showChat, mount>>
    /\ UNCHANGED <<appVars, builderVars>>

\* line 110: the awaited streamChatResponse resolves with the stream
StreamOpens ==
    \E run \in runs :
        /\ run.pc = "await"
        /\ runs' = (runs \ {run}) \cup {[run EXCEPT !.pc = "stream"]}
        /\ chatEvent' = ChatEvent("opened", Live(run))
        /\ UNCHANGED <<showChat, messages, input, isStreaming, clock, mount>>
        /\ UNCHANGED <<appVars, builderVars>>

\* lines 114-121: the stream delivers a chunk.  A run whose view is gone
\* still loops, and React drops its setMessages.
ChunkArrives ==
    \E run \in runs, chunk \in CollaboratorChunks :
        /\ run.pc = "stream"
        /\ IF Live(run)
           THEN /\ Len(run.received) < MaxChunks
                /\ LET fragment == yieldText(chunk)
                       fullText == appendChunk(run.fullText, fragment)
                   IN /\ runs' = (runs \ {run}) \cup
                                    {[run EXCEPT !.fullText = fullText,
                                                 !.received = Append(@, fragment)]}
                      /\ messages' = updateById(messages, run.modelMsgId, fullText)
           ELSE UNCHANGED <<runs, messages>>
        /\ chatEvent' = ChatEvent("chunk", Live(run))
        /\ UNCHANGED <<showChat, input, isStreaming, clock, mount>>
        /\ UNCHANGED <<appVars, builderVars>>

\* mutant: no finally, the end of the stream leaves isStreaming set
C32Mut_StreamEnds ==
    \E run \in runs :
        /\ run.pc = "stream"
        /\ runs' = runs \ {run}
        /\ chatEvent' = ChatEvent("ended", Live(run))
        /\ UNCHANGED <<showChat, messages, input, isStreaming, clock, mount>>
        /\ UNCHANGED <<appVars, builderVars>>

\* lines 121 and 129-131: the stream is exhausted; finally
StreamEnds ==
    \E run \in runs :
        /\ run.pc = "stream"
        /\ runs' = runs \ {run}
        /\ IF Live(run) THEN isStreaming' = FALSE ELSE UNCHANGED isStreaming
        /\ chatEvent' = ChatEvent("ended", Live(run))
        /\ UNCHANGED <<showChat, messages, input, clock, mount>>
        /\ UNCHANGED <<appVars, builderVars>>

\* mutant: the catch block does not write the error text
C12Mut_StreamFails ==
    \E run \in runs :
        /\ runs' = runs \ {run}
        /\ IF Live(run)
           THEN /\ UNCHANGED messages
                /\ isStreaming' = FALSE
           ELSE UNCHANGED <<messages, isStreaming>>
        /\ chatEvent' = ChatEvent("failed", Live(run))
        /\ UNCHANGED <<showChat, input, clock, mount>>
        /\ UNCHANGED <<appVars, builderVars>>

\* lines 123-131: streamChatResponse rejects, or the stream throws part-way;
\* catch, then finally
StreamFails ==
    \E run \in runs :
        /\ runs' = runs \ {run}
        /\ IF Live(run)
           THEN /\ messages' = updateById(messages, run.modelMsgId, ErrorText)
                /\ isStreaming' = FALSE
           ELSE UNCHANGED <<messages, isStreaming>>
        /\ chatEvent' = ChatEvent("failed", Live(run))
        /\ UNCHANGED <<showChat, input, clock, mount>>
        /\ UNCHANGED <<appVars, builderVars>>

\* a run whose view has been unmounted: it goes on to the end of its stream,
\* but the text it collects and the id it writes to reach no state any more,
\* so only its position in handleSubmit is kept
Detached(run) ==
    [run EXCEPT !.modelMsgId = <<>>, !.pos = 0, !.fullText = <<>>, !.received = <<>>]

\* src/App.tsx lines 221-230 and 268-270: Hide Tutor unmounts the
\* ChatInterface and discards its state; the suspended runs go on
HideChat ==
    /\ showChat
    /\ showChat' = FALSE
    /\ messages' = <<>>
    /\ input' = <<>>
    /\ isStreaming' = FALSE
    /\ runs' = {Detached(run) : run \in runs}
    /\ chatEvent' = ChatEvent("hide", TRUE)
    /\ UNCHANGED <<clock, mount>>
    /\ UNCHANGED <<appVars, builderVars>>

\* Ask Tutor mounts a new ChatInterface in its initial state
ShowChat ==
    /\ ~showChat
    /\ mount < MaxMounts
    /\ showChat' = TRUE
    /\ mount' = mount + 1
    /\ chatEvent' = ChatEvent("show", TRUE)
    /\ UNCHANGED <<messages, input, isStreaming, clock, runs>>
    /\ UNCHANGED <<appVars, builderVars>>

(***************************************************************************)
(* src/components/SequenceBuilder.tsx: the events of the sequence builder. *)
(* Its controls exist while the builder view is shown.  Each handler runs  *)
(* on the state of the render it closes over; the effect on [steps] runs   *)
(* after the render that follows a setSteps, before the next event.        *)
(***************************************************************************)
\* mutant: the effect has an empty dependency list and runs at mount only
C17Mut_stepsEffect == UNCHANGED generatedCode

\* mutant: the text is accumulated over the evaluations
C26Mut_stepsEffect == generatedCode' = generatedCode \o generateCode(steps')

\* lines 65-67: useEffect(() => setGeneratedCode(generateCode()), [steps])
stepsEffect == generatedCode' = generateCode(steps')

\* lines 99-109: one of the three Operation buttons
SelectKind ==
    /\ viewMode = "builder"
    /\ \E k \in TransactionKind :
           currentStep' = [currentStep EXCEPT !.kind = k]
    /\ builderEvent' = BuilderEvent("edit", <<>>)
    /\ UNCHANGED <<steps, generatedCode>>
    /\ UNCHANGED <<appVars, chatVars>>

\* lines 113-122: the address input, rendered unless the kind is IDLE
TypeAddr ==
    /\ viewMode = "builder"
    /\ currentStep.kind # "IDLE"
    /\ \E t \in AddrTexts :
           currentStep' = [currentStep EXCEPT !.addr = t]
    /\ builderEvent' = BuilderEvent("edit", <<>>)
    /\ UNCHANGED <<steps, generatedCode>>
    /\ UNCHANGED <<appVars, chatVars>>

\* lines 125-133: the data input, rendered when the kind is WRITE
TypeData ==
    /\ viewMode = "builder"
    /\ currentStep.kind = "WRITE"
    /\ \E t \in DataTexts :
           currentStep' = [currentStep EXCEPT !.data = t]
    /\ builderEvent' = BuilderEvent("edit", <<>>)
    /\ UNCHANGED <<steps, generatedCode>>
    /\ UNCHANGED <<appVars, chatVars>>

\* lines 139-146: the delay input
TypeDelay ==
    /\ viewMode = "builder"
    /\ \E t \in DelayTexts :
           currentStep' = [currentStep EXCEPT !.delay = delayOfInput(t)]
    /\ builderEvent' = BuilderEvent("edit", <<>>)
    /\ UNCHANGED <<steps, generatedCode>>
    /\ UNCHANGED <<appVars, chatVars>>

\* lines 149-154: the Add Step button; Date.now() is read once
ClickAddStep ==
    /\ viewMode = "builder"
    /\ Len(steps) < MaxSteps
    /\ \E now \in clock..MaxClock :
           /\ clock' = now
           /\ steps' = addStep(steps, currentStep, now)
    /\ stepsEffect
    /\ builderEvent' = BuilderEvent("add", <<>>)
    /\ UNCHANGED currentStep
    /\ UNCHANGED <<showChat, messages, input, isStreaming, mount, runs, chatEvent>>
    /\ UNCHANGED appVars

\* the Add Step button while the list is shorter than MaxFormSteps
AddFirstStep ==
    /\ Len(steps) < MaxFormSteps
    /\ ClickAddStep

\* lines 177-182: the remove button of one of the listed steps
ClickRemoveStep ==
    /\ viewMode = "builder"
    /\ \E i \in 1..Len(steps) :
           /\ steps' = removeStep(steps, steps[i].id)
           /\ builderEvent' = BuilderEvent("remove", steps[i].id)
    /\ stepsEffect
    /\ UNCHANGED currentStep
    /\ UNCHANGED <<appVars, chatVars>>

\* lines 82-87: the Clear All button, onClick={() => setSteps([])}
ClickClearAll ==
    /\ viewMode = "builder"
    /\ steps' = <<>>
    /\ stepsEffect
    /\ builderEvent' = BuilderEvent("clear", <<>>)
    /\ UNCHANGED currentStep
    /\ UNCHANGED <<appVars, chatVars>>

(***************************************************************************)
(* The state after the first render: the effect has run once and the       *)
(* explanation of the initial component (DRIVER) is being fetched.         *)
(***************************************************************************)
InitApp ==
    /\ activeComponent = "Driver"
    /\ simulationStepIndex = -1
    /\ viewMode = "architecture"
    /\ aiData = NullData
    /\ isLoading = TRUE
    /\ pending = SetToBag({"Driver"})
    /\ lastEvent = Event("init", "none")

InitChat ==
    /\ showChat = TRUE
    /\ messages = <<>>
    /\ input = <<>>
    /\ isStreaming = FALSE
    /\ clock = 0
    /\ mount = 1
    /\ runs = {}
    /\ chatEvent = ChatEvent("init", TRUE)

\* the builder is not on screen in the initial (architecture) view
InitBuilder ==
    /\ steps = <<>>
    /\ currentStep = InitialCurrentStep
    /\ generatedCode = generateCode(<<>>)
    /\ builderEvent = BuilderEvent("mount", <<>>)

Init == InitApp /\ InitChat /\ InitBuilder

Next ==
    \/ ClickWalkthroughFlow
    \/ ClickNext
    \/ ClickPrev
    \/ ClickStop
    \/ ClickBlock
    \/ ClickView
    \/ ExplanationArrives

Spec == Init /\ [][Next]_vars

NextChat ==
    \/ TypeInput
    \/ Submit
    \/ StreamOpens
    \/ ChunkArrives
    \/ StreamEnds
    \/ StreamFails
    \/ HideChat
    \/ ShowChat

SpecChat == Init /\ [][NextChat]_vars

\* the collaborator eventually completes or fails every stream: a run that is
\* suspended at the await or in the for-await loop (lines 110-121) does not
\* stay suspended for ever
CollaboratorSettles == WF_vars(StreamEnds \/ StreamFails)

\* one conversation, from the mounting of the ChatInterface until its view is
\* hidden and the runs it left behind are over
NextConversation ==
    \/ TypeInput
    \/ Submit
    \/ StreamOpens
    \/ ChunkArrives
    \/ StreamEnds
    \/ StreamFails
    \/ HideChat

SpecChatFair == Init /\ [][NextConversation]_vars /\ CollaboratorSettles

\* the step list under the list operations, the steps differing in kind,
\* delay and id
NextBuilder ==
    \/ ClickView
    \/ SelectKind
    \/ TypeDelay
    \/ ClickAddStep
    \/ ClickRemoveStep
    \/ ClickClearAll

SpecBuilder == Init /\ [][NextBuilder]_vars

\* the state after the first click on Sequence Builder: the builder has
\* been mounted, the explanation of DRIVER is still awaited
InitBuilderView ==
    /\ activeComponent = "Sequence"
    /\ simulationStepIndex = -1
    /\ viewMode = "builder"
    /\ aiData = NullData
    /\ isLoading = TRUE
    /\ pending = SetToBag({"Driver"})
    /\ lastEvent = Event("view", "builder")
    /\ InitChat
    /\ InitBuilder

\* one mounting of the builder: the whole form, with a list of at most
\* MaxFormSteps steps
NextForm ==
    \/ SelectKind
    \/ TypeAddr
    \/ TypeData
    \/ TypeDelay
    \/ AddFirstStep
    \/ ClickRemoveStep
    \/ ClickClearAll

SpecForm == InitBuilderView /\ [][NextForm]_vars

\* the steps addStep can store: each kind, an address and a data word as
\* typed or the default of an empty input, a delay as delayOfInput gives it
StorableSteps(id) ==
    { [id |-> id, kind |-> k, addr |-> a, data |-> d, delay |-> w] :
        k \in TransactionKind,
        a \in {newStep([InitialCurrentStep EXCEPT !.addr = t], 0).addr : t \in AddrTexts},
        d \in {newStep([InitialCurrentStep EXCEPT !.data = t], 0).data : t \in DataTexts},
        w \in {delayOfInput(t) : t \in DelayTexts} }

\* the lists of at most MaxCompileSteps storable steps, the step at position
\* i created at clock value i - 1
CompileLists ==
    UNION { { list \in [1..n -> UNION {StorableSteps(toString(i - 1)) : i \in 1..n}] :
                  \A i \in 1..n : list[i].id = toString(i - 1) } :
            n \in 0..MaxCompileSteps }

\* generateCode applied to every such list: the builder is on screen, the
\* list has been built, the form has been edited back to its initial values
\* and the effect has compiled the list
InitCompile ==
    /\ activeComponent = "Sequence"
    /\ simulationStepIndex = -1
    /\ viewMode = "builder"
    /\ aiData = NullData
    /\ isLoading = TRUE
    /\ pending = SetToBag({"Driver"})
    /\ lastEvent = Event("view", "builder")
    /\ showChat = TRUE
    /\ messages = <<>>
    /\ input = <<>>
    /\ isStreaming = FALSE
    /\ mount = 1
    /\ runs = {}
    /\ chatEvent = ChatEvent("init", TRUE)
    /\ steps \in CompileLists
    /\ clock = IF steps = <<>> THEN 0 ELSE Len(steps) - 1
    /\ currentStep = InitialCurrentStep
    /\ generatedCode = generateCode(steps)
    /\ builderEvent = BuilderEvent("edit", <<>>)

\* and the list operations that make the effect compile again
NextCompile ==
    \/ ClickRemoveStep
    \/ ClickClearAll

SpecCompile == InitCompile /\ [][NextCompile]_vars

(***************************************************************************)
(* Claims about the walkthrough (checked under Spec).  A step whose        *)
(* lastEvent' names an event is a step of that event's action.             *)
(***************************************************************************)
\* C1: in every reachable state, whenever the walkthrough is active
\* (cursor i >= 0) the active component is WALKTHROUGH_STEPS[i].component.
C1_ActiveMatchesStep ==
    simulationStepIndex >= 0
        => activeComponent = StepComponent(simulationStepIndex)

\* a diagram click on another block has been handled in the middle of the
\* walkthrough
C1_Witness ==
    /\ simulationStepIndex = 3
    /\ lastEvent = Event("select", "Monitor")
    /\ activeComponent = "Interface"

\* C2: a click on any diagram block (the nested Seq Item included) while the
\* walkthrough is on step i changes neither the cursor nor the active
\* component, which stays WALKTHROUGH_STEPS[i].component.
C2_SelectIgnoredOnStep ==
    [][ (lastEvent'.name = "select" /\ simulationStepIndex >= 0)
            => /\ simulationStepIndex' = simulationStepIndex
               /\ activeComponent' = StepComponent(simulationStepIndex)
               /\ activeComponent' = activeComponent ]_vars

\* the Seq Item block has been clicked while on step 2 (DRIVER)
C2_Witness ==
    /\ simulationStepIndex = 2
    /\ lastEvent = Event("select", "Sequence")
    /\ activeComponent = StepComponent(2)

\* C3: the cursor is always in {-1} \cup {0..N-1} with N = 7, and a next or
\* prev event handled on a step leaves it in [0, N-1].
C3_CursorInRange ==
    /\ [](/\ totalSteps = 7
          /\ simulationStepIndex \in (-1) .. (totalSteps - 1))
    /\ [][ (lastEvent'.name \in {"next", "prev"} /\ simulationStepIndex >= 0)
               => simulationStepIndex' \in 0 .. (totalSteps - 1) ]_vars

\* next has been clicked and the cursor is on the last step
C3_Witness ==
    /\ simulationStepIndex = totalSteps - 1
    /\ lastEvent.name = "next"
    /\ viewMode = "architecture"

\* C4: from step i, next moves to step i+1 and shows its component when
\* i < N-1, and changes neither cursor nor active component when i = N-1.
C4_NextStep ==
    [][ lastEvent'.name = "next"
            => /\ simulationStepIndex >= 0
               /\ IF simulationStepIndex < totalSteps - 1
                  THEN /\ simulationStepIndex' = simulationStepIndex + 1
                       /\ activeComponent' = StepComponent(simulationStepIndex + 1)
                  ELSE /\ simulationStepIndex' = simulationStepIndex
                       /\ activeComponent' = activeComponent ]_vars

\* the last step has been reached by next, with its component shown
C4_Witness ==
    /\ lastEvent.name = "next"
    /\ simulationStepIndex = totalSteps - 1
    /\ activeComponent = "Scoreboard"

\* C5: from step i, prev moves to step i-1 and shows its component when
\* i > 0, and changes nothing when i = 0; it never deactivates the
\* walkthrough.
C5_PrevStep ==
    [][ lastEvent'.name = "prev"
            => /\ simulationStepIndex >= 0
               /\ simulationStepIndex' >= 0
               /\ IF simulationStepIndex > 0
                  THEN /\ simulationStepIndex' = simulationStepIndex - 1
                       /\ activeComponent' = StepComponent(simulationStepIndex - 1)
                  ELSE /\ simulationStepIndex' = simulationStepIndex
                       /\ activeComponent' = activeComponent ]_vars

\* prev has brought the walkthrough back to step 0
C5_Witness ==
    /\ lastEvent.name = "prev"
    /\ simulationStepIndex = 0
    /\ activeComponent = "Sequence"

\* C6: right after start the cursor is 0 and the active component is
\* WALKTHROUGH_STEPS[0].component, whatever was displayed before (a stop on
\* any step followed by start comes back to step 0).
C6_StartAtStepZero ==
    lastEvent.name = "start"
        => /\ simulationStepIndex = 0
           /\ activeComponent = StepComponent(0)

\* started again while the explanation requested by a stop on the last step
\* is still awaited
C6_Witness ==
    /\ lastEvent.name = "start"
    /\ simulationStepIndex = 0
    /\ BagIn("Scoreboard", pending)

\* C7: stop sets the cursor to -1 from any step and leaves the active
\* component the one of the step that was displayed; with the cursor at -1 a
\* diagram click sets the active component to the block clicked.
C7_StopKeepsComponent ==
    /\ [][ lastEvent'.name = "stop"
               => /\ simulationStepIndex >= 0
                  /\ simulationStepIndex' = -1
                  /\ activeComponent' = activeComponent
                  /\ activeComponent' = StepComponent(simulationStepIndex) ]_vars
    /\ [][ (lastEvent'.name = "select" /\ simulationStepIndex = -1)
               => /\ activeComponent' = lastEvent'.arg
                  /\ simulationStepIndex' = -1 ]_vars

\* stopped on step 4 (DUT), which stays the active component
C7_Witness ==
    /\ lastEvent.name = "stop"
    /\ simulationStepIndex = -1
    /\ activeComponent = "DUT"

\* C8: the cursor leaves -1 only by start and only to step 0; no next or
\* prev event handled while the cursor is -1 changes cursor or component.
C8_OnlyStartActivates ==
    /\ [][ (simulationStepIndex = -1 /\ simulationStepIndex' # -1)
               => /\ lastEvent'.name = "start"
                  /\ simulationStepIndex' = 0
                  /\ activeComponent' = StepComponent(0) ]_vars
    /\ [][ (simulationStepIndex = -1 /\ lastEvent'.name \in {"next", "prev"})
               => /\ simulationStepIndex' = -1
                  /\ activeComponent' = activeComponent ]_vars

\* the walkthrough has just become active, after an explanation was shown
C8_Witness ==
    /\ lastEvent.name = "start"
    /\ activeComponent = "Sequence"
    /\ aiData.kind = "explanation"

(***************************************************************************)
(* Claims about the chat (checked under SpecChat).  A conversation is one  *)
(* mounted ChatInterface; its outstanding requests are the runs of         *)
(* handleSubmit started from it that have not reached finally.             *)
(***************************************************************************)
LiveRuns == {run \in runs : Live(run)}

\* C9: while a request of the conversation is outstanding, a submission is
\* rejected, appending no message and issuing no request; so a conversation
\* never has two requests outstanding, and isStreaming tells whether it has
\* one.
C9_OneOutstandingRequest ==
    /\ [](/\ Cardinality(LiveRuns) <= 1
          /\ showChat => (isStreaming <=> LiveRuns # {}))
    /\ [][ (LiveRuns # {} /\ chatEvent'.name \in {"accepted", "rejected"})
               => /\ chatEvent'.name = "rejected"
                  /\ messages' = messages
                  /\ runs' = runs ]_vars

\* a submission has been rejected while the stream of the accepted one had
\* delivered a fragment
C9_Witness ==
    /\ chatEvent.name = "rejected"
    /\ isStreaming
    /\ \E run \in LiveRuns : run.pc = "stream" /\ Len(run.received) = 1
    /\ Len(messages) = 2

\* C10: at every point of a stream, the model message of its submission holds
\* the fragments received so far, concatenated in the order of arrival.
C10_ContentIsFragmentsInOrder ==
    \A run \in LiveRuns :
        /\ run.pos \in DOMAIN messages
        /\ messages[run.pos].role = "model"
        /\ messages[run.pos].id = run.modelMsgId
        /\ messages[run.pos].content = Concat(run.received)

\* two different fragments have arrived, in the second submission of a
\* conversation
C10_Witness ==
    \E run \in LiveRuns :
        /\ run.received = << <<"b">>, <<"a">> >>
        /\ run.pos = 4
        /\ messages[4].content = <<"b", "a">>

\* C11: once the chat view is torn down (Hide Tutor) while a stream is in
\* flight, no further state update of the discarded view is attempted: every
\* chunk, completion or failure handled is one of a run whose view is mounted.
C11_NoUpdateAfterTeardown ==
    chatEvent.name \in {"chunk", "ended", "failed"} => chatEvent.live

\* C12: when streamChatResponse rejects or the stream throws part-way, the
\* model message of that submission ends with exactly the fixed error text,
\* with isLoading false, and handleSubmit completes (isStreaming is false and
\* the run is over).
C12_FailureShowsErrorText ==
    [][ (chatEvent'.name = "failed" /\ chatEvent'.live)
            => /\ Cardinality(runs \ runs') = 1
               /\ \A run \in runs \ runs' :
                      /\ messages'[run.pos].role = "model"
                      /\ messages'[run.pos].content = ErrorText
                      /\ messages'[run.pos].isLoading = FALSE
               /\ Len(messages') = Len(messages)
               /\ isStreaming' = FALSE
               /\ LiveRuns' = {} ]_vars

\* a stream has failed in the second submission of a conversation whose first
\* answer was streamed
C12_Witness ==
    /\ chatEvent = ChatEvent("failed", TRUE)
    /\ Len(messages) = 4
    /\ messages[2].content = <<"a", "b">>
    /\ messages[4].content = ErrorText
    /\ ~isStreaming

\* C13: getComponentExplanation never rejects: whether or not the collaborator
\* fails, every fetch the App started ends with a step that stores a result
\* (the explanation of the requested component, or the fixed error pair on
\* failure) and clears isLoading.
C13_ExplanationAlwaysSettles ==
    [][ lastEvent'.name = "response"
            => /\ aiData' \in { ErrorData,
                                [kind |-> "explanation",
                                 component |-> lastEvent'.arg] }
               /\ isLoading' = FALSE
               /\ BagCardinality(pending') = BagCardinality(pending) - 1 ]_vars

\* the collaborator has failed on the fetch for a component selected by the
\* user: the fixed error pair is stored and the spinner is off
C13_Witness ==
    /\ lastEvent = Event("response", "Monitor")
    /\ aiData = ErrorData
    /\ ~isLoading
    /\ pending = EmptyBag

(***************************************************************************)
(* Claims about the sequence builder.                                      *)
(***************************************************************************)
\* C14: at all times no two steps of the list share an id, whatever the
\* sequence of addStep, removeStep and clearAll.
C14_IdsUnique ==
    \A i, j \in 1..Len(steps) : i # j => steps[i].id # steps[j].id

\* the ids the clock can give
StepIds == { toString(t) : t \in 0..MaxClock }

\* r holds the elements of list at the positions P, in the order of list
IsSelection(r, list, P) ==
    /\ Len(r) = Cardinality(P)
    /\ \E f \in [1..Len(r) -> P] :
           /\ \A a, b \in 1..Len(r) : a < b => f[a] < f[b]
           /\ \A a \in 1..Len(r) : r[a] = list[f[a]]

\* C15: removeStep(id) leaves exactly the steps whose id differs from id, in
\* their original relative order (every click on a remove button, and
\* removeStep applied to each list the builder comes to hold, for any id);
\* when no step has that id, the list and the compiled output are the same
\* before and after.
C15_RemoveStepFilters ==
    [][ /\ builderEvent'.name = "remove"
            => /\ IsSelection(steps', steps,
                     {i \in 1..Len(steps) : steps[i].id # builderEvent'.arg})
               /\ generatedCode' = generateCode(steps')
        /\ steps' # steps
            => \A id \in StepIds :
                   /\ IsSelection(removeStep(steps', id), steps',
                         {i \in 1..Len(steps') : steps'[i].id # id})
                   /\ (\A i \in 1..Len(steps') : steps'[i].id # id)
                         => /\ removeStep(steps', id) = steps'
                            /\ generateCode(removeStep(steps', id)) = generatedCode'
      ]_vars

\* the first of two steps has been removed: the second one is left, and the
\* id removed is now absent from the list
C15_Witness ==
    /\ builderEvent = BuilderEvent("remove", <<"0">>)
    /\ Len(steps) = 1
    /\ steps[1].id = <<"1">>
    /\ steps[1].kind = "IDLE"

\* where the comments that open the per-step blocks stand in a text
CommentPositions(code) == {p \in 1..Len(code) : code[p] = "    // Step "}

\* the text renders the steps of list in list order: it holds one opening
\* comment per step, and the k-th of them carries the position k and the
\* kind of the k-th step
RendersInOrder(code, list) ==
    /\ Cardinality(CommentPositions(code)) = Len(list)
    /\ \A p \in CommentPositions(code) :
           LET k == Cardinality({q \in CommentPositions(code) : q <= p})
           IN  /\ SubSeq(code, p + 1, p + Len(toString(k))) = toString(k)
               /\ code[p + Len(toString(k)) + 1] = ": "
               /\ code[p + Len(toString(k)) + 2] = list[k].kind

\* C16: addStep appends exactly one new step, built from the form, at the end
\* of the list and leaves the steps before it as they were; no other event
\* changes the list other than to a selection of the former list, in its
\* order; and whenever the list or the displayed code changes, the displayed
\* code renders the steps in list order.
C16_AddStepAppends ==
    [][ /\ builderEvent'.name = "add"
            => /\ Len(steps') = Len(steps) + 1
               /\ SubSeq(steps', 1, Len(steps)) = steps
               /\ steps'[Len(steps')].kind = currentStep.kind
               /\ steps'[Len(steps')].delay = currentStep.delay
               /\ steps'[Len(steps')].id = toString(clock')
        /\ (builderEvent'.name # "add" /\ steps' # steps)
            => \E P \in SUBSET (1..Len(steps)) : IsSelection(steps', steps, P)
        /\ (steps' # steps \/ generatedCode' # generatedCode)
            => RendersInOrder(generatedCode', steps')
      ]_vars

\* a second step has been added behind a first of another kind and delay
C16_Witness ==
    /\ builderEvent = BuilderEvent("add", <<>>)
    /\ Len(steps) = 2
    /\ steps[1].kind = "READ" /\ steps[1].delay = 10 /\ steps[1].id = <<"0">>
    /\ steps[2].kind = "IDLE" /\ steps[2].delay = 0 /\ steps[2].id = <<"1">>
    /\ RendersInOrder(generatedCode, steps)

\* C17: after every event of the builder (add, remove, clear, a form edit, a
\* remount), once the effect has run, the displayed code is the compilation
\* of the current list; Clear All leaves the list empty; and an edit of a
\* form field (kind, addr, data, delay) changes neither the list nor the
\* displayed code.
C17_DisplayedCodeIsCompiledList ==
    [][ /\ generatedCode' = generateCode(steps')
        /\ builderEvent'.name = "clear" => steps' = <<>>
        /\ builderEvent'.name = "edit"
            => /\ steps' = steps
               /\ generatedCode' = generatedCode
      ]_vars

\* the form has been edited (kind, address, data and delay) after a step was
\* added: the displayed code still is the compilation of the one-step list
C17_Witness ==
    /\ builderEvent = BuilderEvent("edit", <<>>)
    /\ Len(steps) = 1
    /\ steps[1].kind = "WRITE"
    /\ steps[1].addr = InitialCurrentStep.addr
    /\ currentStep = [kind |-> "READ", addr |-> <<>>, data |-> <<>>, delay |-> 10]
    /\ generatedCode = generateCode(steps)
    /\ generatedCode # generateCode(<<>>)

\* C18: every step stored in the list has a delay that is a non-negative
\* integer (the delay typed in the form is coerced when entered, invalid
\* input becoming 0).
C18_StoredDelayNonNegative ==
    \A i \in 1..Len(steps) : steps[i].delay \in Nat

(***************************************************************************)
(* Claims about generateCode (checked under SpecCompile, on the list of    *)
(* the state and the code compiled from it).                               *)
(***************************************************************************)
\* the fields of a step other than its id
Fields(step) == <<step.kind, step.addr, step.data, step.delay>>

\* what generateCode shows of a step: its kind; for IDLE the wait, a delay
\* of 0 counting as 10; for READ and WRITE the address and the delay when it
\* is positive (no wait otherwise); for WRITE the data
Rendered(step) ==
    IF step.kind = "IDLE"
    THEN <<step.kind, <<>>, <<>>, IF step.delay = 0 THEN 10 ELSE step.delay>>
    ELSE <<step.kind,
           step.addr,
           IF step.kind = "WRITE" THEN step.data ELSE <<>>,
           IF step.delay > 0 THEN step.delay ELSE 0>>

\* C19 as stated: for any two steps A and B (with delays that are
\* non-negative integers) that differ in kind or in any field,
\* compile([A, B]) differs from compile([B, A]).
C19_OrderSensitive ==
    Len(steps) = 2
        => LET A == steps[1]
               B == steps[2]
           IN  (A.delay \in Nat /\ B.delay \in Nat /\ Fields(A) # Fields(B))
                   => generateCode(<<A, B>>) # generateCode(<<B, A>>)

\* C19 amended: for any two steps A and B that differ in what compile renders
\* of them (kind; addr for READ and WRITE; data for WRITE; the wait: for IDLE
\* the delay with 0 read as 10, for READ and WRITE the delay when positive),
\* compile([A, B]) differs from compile([B, A]).
C19_OrderSensitiveWhenRenderedDiffers ==
    Len(steps) = 2
        => LET A == steps[1]
               B == steps[2]
           IN  /\ Rendered(A) # Rendered(B)
                   => generateCode(<<A, B>>) # generateCode(<<B, A>>)
               /\ generatedCode = generateCode(<<steps[1], steps[2]>>)

\* a list of two READ steps that differ in their address only
C19_Witness ==
    /\ Len(steps) = 2
    /\ steps[1].kind = "READ" /\ steps[2].kind = "READ"
    /\ steps[1].addr = InitialCurrentStep.addr /\ steps[2].addr = <<"0">>
    /\ steps[1].data = steps[2].data
    /\ steps[1].delay = steps[2].delay
    /\ generatedCode = generateCode(steps)
    /\ generatedCode # generateCode(<<steps[2], steps[1]>>)

\* where the opening comment of the k-th per-step block stands
NthComment(code, k) ==
    CHOOSE p \in CommentPositions(code) :
        Cardinality({q \in CommentPositions(code) : q <= p}) = k

\* the k-th per-step block of a text holding n of them: from its opening
\* comment up to the next opening comment, or up to the closing text
BlockOf(code, k, n) ==
    SubSeq(code,
           NthComment(code, k),
           IF k < n THEN NthComment(code, k + 1) - 1
           ELSE Len(code) - Len(Closing))

\* the elements of a text that end a line
LineEnds(text) == {p \in 1..Len(text) : text[p] = "\n"}

\* C20: the block compiled for an IDLE step is its opening comment followed
\* by exactly one wait line and an empty line, and nothing else (no
\* transaction block, neither addr nor data); the wait is the step's delay,
\* a delay of 0 being replaced by 10.
C20_IdleIsOneWaitLine ==
    /\ Cardinality(CommentPositions(generatedCode)) = Len(steps)
    /\ \A k \in 1..Len(steps) :
           steps[k].kind = "IDLE"
               => LET block == BlockOf(generatedCode, k, Len(steps))
                      wait == IF steps[k].delay = 0 THEN 10 ELSE steps[k].delay
                  IN  /\ block =
                             <<"    // Step ">> \o numberToString(k)
                                 \o <<": ", "IDLE", "\n">>
                                 \o <<"    #">> \o numberToString(wait)
                                 \o <<";", "\n", "\n">>
                      /\ Cardinality(LineEnds(block)) = 3
                      /\ \A p \in 1..Len(block) : block[p] # "      addr == "
                      /\ \A p \in 1..Len(block) : block[p] # "      data == "

\* an IDLE step of delay 0 with a non-default address stands between two
\* steps' worth of text: its block waits 10
C20_Witness ==
    /\ Len(steps) = 2
    /\ steps[1].kind = "WRITE"
    /\ steps[2] = [id |-> <<"1">>, kind |-> "IDLE", addr |-> <<"0">>,
                   data |-> InitialCurrentStep.data, delay |-> 0]
    /\ BlockOf(generatedCode, 2, 2) =
           << "    // Step ", "2", ": ", "IDLE", "\n",
              "    #", "1", "0", ";", "\n", "\n" >>
\* where the wait lines of a block start
WaitPositions(block) == {p \in 1..Len(block) : block[p] = "    #"}

\* C21: the block compiled for a READ or WRITE step holds exactly one wait
\* line when the delay is positive: it carries the delay, stands right after
\* the finish_item line and is the last line of the block before the empty
\* line; the block holds no wait line when the delay is 0 (no default).
C21_TransactionWaitOnlyWhenPositive ==
    \A k \in 1..Len(steps) :
        steps[k].kind \in {"READ", "WRITE"}
            => LET block == BlockOf(generatedCode, k, Len(steps))
                   digits == numberToString(steps[k].delay)
               IN  /\ steps[k].delay > 0
                       => /\ Cardinality(WaitPositions(block)) = 1
                          /\ \A p \in WaitPositions(block) :
                                 /\ SubSeq(block, p - 2, p - 1)
                                        = <<"    finish_item(req);", "\n">>
                                 /\ SubSeq(block, p + 1, Len(block))
                                        = digits \o <<";", "\n", "\n">>
                   /\ steps[k].delay = 0
                       => /\ WaitPositions(block) = {}
                          /\ SubSeq(block, Len(block) - 2, Len(block))
                                 = <<"    finish_item(req);", "\n", "\n">>

\* a READ step of delay 10 followed by a WRITE step of delay 0
C21_Witness ==
    /\ Len(steps) = 2
    /\ steps[1].kind = "READ" /\ steps[1].delay = 10
    /\ steps[2].kind = "WRITE" /\ steps[2].delay = 0
    /\ Cardinality(WaitPositions(BlockOf(generatedCode, 1, 2))) = 1
    /\ WaitPositions(BlockOf(generatedCode, 2, 2)) = {}
\* the lines of a transaction block up to finish_item, for a step at
\* position k, with the data constraint or without
DispatchLines(step, k, withData) ==
    << "    // Step " >> \o numberToString(k) \o << ": ", step.kind, "\n",
       "    req = my_transaction::type_id::create(\"req\");", "\n",
       "    start_item(req);", "\n",
       "    if (!req.randomize() with {", "\n",
       "      addr == " >> \o step.addr \o << ";", "\n",
       "      kind == ", step.kind, ";", "\n" >>
    \o (IF withData
        THEN << "      data == " >> \o step.data \o << ";", "\n" >>
        ELSE <<>>)
    \o << "    }) ", Backtick, "uvm_error(\"SEQ\", \"Randomization failed\")", "\n",
          "    finish_item(req);", "\n" >>

\* C22: the block compiled for a READ or WRITE step starts with the create,
\* start_item, randomize and finish_item lines, the randomize constrained
\* with the step's addr and kind as stored; the data constraint, with the
\* step's data as stored, is there if and only if the kind is WRITE.
C22_TransactionBlockVerbatim ==
    \A k \in 1..Len(steps) :
        steps[k].kind \in {"READ", "WRITE"}
            => LET block == BlockOf(generatedCode, k, Len(steps))
                   lines == DispatchLines(steps[k], k, steps[k].kind = "WRITE")
               IN  /\ Len(block) >= Len(lines)
                   /\ SubSeq(block, 1, Len(lines)) = lines
                   /\ (\E p \in 1..Len(block) : block[p] = "      data == ")
                          <=> steps[k].kind = "WRITE"

\* the form's initial step {WRITE, 'h1000, 'hFF, 0} compiles to the addr,
\* kind and data constraints and no trailing wait; the READ step behind it
\* compiles without its data
C22_Witness ==
    /\ Len(steps) = 2
    /\ Fields(steps[1]) = Fields(newStep(InitialCurrentStep, 0))
    /\ BlockOf(generatedCode, 1, 2) =
           DispatchLines(steps[1], 1, TRUE) \o <<"\n">>
    /\ steps[2].kind = "READ" /\ steps[2].delay = 0
    /\ BlockOf(generatedCode, 2, 2) =
           DispatchLines(steps[2], 2, FALSE) \o <<"\n">>
\* where the placeholder comment stands in a text
PlaceholderPositions(code) ==
    {p \in 1..Len(code) : code[p] = "    // Add transactions to see code here"}

\* C23: the compilation of the empty list is the fixed opening text, the one
\* placeholder comment line and the fixed closing text, with no per-step
\* block; and the placeholder line is in the compiled text if and only if
\* the list is empty.
C23_EmptyListPlaceholder ==
    /\ steps = <<>>
           => /\ generatedCode =
                    << "class my_custom_seq extends uvm_sequence #(my_transaction);", "\n",
                       "  ", Backtick, "uvm_object_utils(my_custom_seq)", "\n", "\n",
                       "  function new(string name = \"my_custom_seq\");", "\n",
                       "    super.new(name);", "\n",
                       "  endfunction", "\n", "\n",
                       "  virtual task body();", "\n",
                       "    my_transaction req;", "\n", "\n",
                       "    // Add transactions to see code here", "\n",
                       "  endtask", "\n",
                       "endclass" >>
              /\ CommentPositions(generatedCode) = {}
    /\ PlaceholderPositions(generatedCode) # {} <=> steps = <<>>
    /\ Cardinality(PlaceholderPositions(generatedCode)) <= 1

\* the list has been cleared: the placeholder is back
C23_Witness ==
    /\ builderEvent = BuilderEvent("clear", <<>>)
    /\ steps = <<>>
    /\ Cardinality(PlaceholderPositions(generatedCode)) = 1
    /\ Len(generatedCode) = Len(Preamble) + Len(Placeholder) + Len(Closing)
\* the j-th smallest element of a set of positions
Nth(P, j) == CHOOSE i \in P : Cardinality({q \in P : q <= i}) = j

\* the k-th per-step block without its opening "// Step k" (what follows the
\* position number)
BodyOf(code, k, n) ==
    LET block == BlockOf(code, k, n)
    IN  SubSeq(block, 2 + Len(numberToString(k)), Len(block))

\* C24: the compilation of a list of n steps holds exactly n per-step
\* blocks, in list order, the k-th opened by a comment that carries the
\* position k (counted from 1) and the kind of the k-th step; after a
\* removal the blocks of the steps that are left are the same as before
\* but for their numbers, which are again 1, 2, ... by position.
C24_BlocksNumberedByPosition ==
    /\ [](/\ Cardinality(CommentPositions(generatedCode)) = Len(steps)
          /\ \A k \in 1..Len(steps) :
                 LET block == BlockOf(generatedCode, k, Len(steps))
                 IN  SubSeq(block, 1, 4 + Len(numberToString(k)))
                         = <<"    // Step ">> \o numberToString(k)
                               \o <<": ", steps[k].kind, "\n">>)
    /\ [][ builderEvent'.name = "remove"
               => LET left == {i \in 1..Len(steps) :
                                   steps[i].id # builderEvent'.arg}
                  IN  /\ Len(steps') = Cardinality(left)
                      /\ Len(steps') < Len(steps)
                      /\ \A j \in 1..Len(steps') :
                             BodyOf(generatedCode', j, Len(steps'))
                                 = BodyOf(generatedCode, Nth(left, j), Len(steps))
         ]_vars

\* the first of two steps has been removed: the block of the step left,
\* which was numbered 2, is numbered 1
C24_Witness ==
    /\ builderEvent = BuilderEvent("remove", <<"0">>)
    /\ Len(steps) = 1
    /\ steps[1].id = <<"1">>
    /\ steps[1].kind = "READ"
    /\ SubSeq(BlockOf(generatedCode, 1, 1), 1, 5)
           = <<"    // Step ", "1", ": ", "READ", "\n">>
\* C25: the compilation of a list holding a step of negative delay is a
\* text like any other (one block per step), and the block of that step,
\* whatever its kind, holds a wait line that carries the delay as stored.
C25_NegativeDelayRendered ==
    /\ Cardinality(CommentPositions(generatedCode)) = Len(steps)
    /\ \A k \in 1..Len(steps) :
           steps[k].delay < 0
               => LET block == BlockOf(generatedCode, k, Len(steps))
                      digits == numberToString(steps[k].delay)
                  IN  \E p \in WaitPositions(block) :
                          SubSeq(block, p + 1, p + Len(digits) + 1)
                              = digits \o <<";">>
(***************************************************************************)
(* generateCode as the builder evaluates it (checked under SpecBuilder).   *)
(***************************************************************************)
\* a list with the same steps in the same order and with the same field
\* values, built anew (the ids blanked)
FreshCopy(list) == [i \in 1..Len(list) |-> [list[i] EXCEPT !.id = <<>>]]

\* C26: the displayed text, whatever the form holds, whatever lists were
\* compiled before and however many times the effect has run, is the text a
\* new evaluation gives on a list with the same steps in the same order and
\* with the same field values; and a step of the builder that leaves such a
\* list (a form edit, Clear All on an empty list) leaves the same text.
C26_CompileIsPure ==
    /\ [](generatedCode = generateCode(FreshCopy(steps)))
    /\ [][ FreshCopy(steps') = FreshCopy(steps)
               => generatedCode' = generatedCode ]_vars

\* the same step has been added twice, at two clock values, and the form has
\* been edited since: the two blocks are the same text but for the number
C26_Witness ==
    /\ builderEvent = BuilderEvent("edit", <<>>)
    /\ Len(steps) = 2
    /\ steps[1].id # steps[2].id
    /\ Fields(steps[1]) = Fields(steps[2])
    /\ steps[1].kind = "READ" /\ steps[1].delay = 10
    /\ currentStep.kind = "IDLE" /\ currentStep.delay = -3
    /\ BodyOf(generatedCode, 1, 2) = BodyOf(generatedCode, 2, 2)
(***************************************************************************)
(* Further claims about the App (checked under Spec).                      *)
(***************************************************************************)
\* C27: while the walkthrough is inactive (cursor -1), a click on any block
\* of the diagram makes that block's component the active component and
\* leaves the cursor at -1.
C27_SelectWhileInactive ==
    [][ (lastEvent'.name = "select" /\ simulationStepIndex = -1)
            => /\ lastEvent'.arg \in DiagramBlocks
               /\ activeComponent' = lastEvent'.arg
               /\ simulationStepIndex' = -1
               /\ viewMode' = viewMode ]_vars

\* the Top block has been clicked while no walkthrough was running, the
\* earlier explanation requests answered: its explanation is being fetched
C27_Witness ==
    /\ lastEvent = Event("select", "Top")
    /\ activeComponent = "Top"
    /\ simulationStepIndex = -1
    /\ pending = SetToBag({"Top"})
\* an explanation request is initiated by the step
RequestStarts == BagCardinality(pending') > BagCardinality(pending)

\* the step initiates exactly one request, for the component active after it
RequestStartsForActive ==
    pending' = pending (+) SetToBag({activeComponent'})

\* C28 as stated: a request is initiated only into a state with the
\* architecture view and the walkthrough inactive; start, next and prev
\* never initiate one, none is initiated while the builder is shown; stop
\* and every manual selection made while the walkthrough is inactive
\* initiate one for the active component.
C28_RequestOnlyWhenInactive ==
    [][ /\ RequestStarts
            => /\ viewMode' = "architecture"
               /\ simulationStepIndex' = -1
               /\ RequestStartsForActive
        /\ lastEvent'.name \in {"start", "next", "prev"} => pending' = pending
        /\ viewMode' = "builder" => ~RequestStarts
        /\ lastEvent'.name = "stop" => RequestStartsForActive
        /\ (lastEvent'.name = "select" /\ simulationStepIndex = -1)
            => RequestStartsForActive
      ]_vars

\* C28 amended: as above, but a manual selection initiates a request only
\* when it changes the active component; a click on the block of the
\* component that is already active initiates none.
C28_RequestOnlyWhenInactiveOrChanged ==
    [][ /\ RequestStarts
            => /\ viewMode' = "architecture"
               /\ simulationStepIndex' = -1
               /\ RequestStartsForActive
        /\ lastEvent'.name \in {"start", "next", "prev"} => pending' = pending
        /\ viewMode' = "builder" => ~RequestStarts
        /\ lastEvent'.name = "stop" => RequestStartsForActive
        /\ (lastEvent'.name = "select" /\ simulationStepIndex = -1)
            => IF activeComponent' # activeComponent
               THEN RequestStartsForActive
               ELSE pending' = pending
      ]_vars

\* the walkthrough has been stopped on its last step, every earlier request
\* answered: the explanation of SCOREBOARD is being fetched
C28_Witness ==
    /\ lastEvent = Event("stop", "none")
    /\ activeComponent = "Scoreboard"
    /\ simulationStepIndex = -1
    /\ pending = SetToBag({"Scoreboard"})
    /\ isLoading
\* C29: in every reachable state the builder view goes with the cursor at -1
\* and SEQUENCE active; every click on a view button leaves the cursor at -1
\* and shows the view clicked; and right after a click on Architecture the
\* active component is not SEQUENCE: DRIVER if SEQUENCE was active, the
\* component that was active otherwise.
C29_ViewChangeResets ==
    /\ [](viewMode = "builder"
              => simulationStepIndex = -1 /\ activeComponent = "Sequence")
    /\ [][ lastEvent'.name = "view"
               => /\ simulationStepIndex' = -1
                  /\ viewMode' = lastEvent'.arg
                  /\ lastEvent'.arg = "architecture"
                         => /\ activeComponent' # "Sequence"
                            /\ activeComponent' =
                                   IF activeComponent = "Sequence"
                                   THEN "Driver"
                                   ELSE activeComponent
         ]_vars

\* back from the builder view, where SEQUENCE was active: DRIVER is active
\* and its explanation is requested a second time
C29_Witness ==
    /\ lastEvent = Event("view", "architecture")
    /\ viewMode = "architecture"
    /\ activeComponent = "Driver"
    /\ simulationStepIndex = -1
    /\ pending = SetToBag({"Driver"}) (+) SetToBag({"Driver"})
\* C30: with the requests answered in any order, once none is outstanding in
\* architecture view with the walkthrough inactive, the stored explanation
\* is the one returned for the active component (the explanation of that
\* component, or the error pair) and isLoading is false.
C30_LatestExplanationWins ==
    (/\ pending = EmptyBag
     /\ viewMode = "architecture"
     /\ simulationStepIndex = -1)
        => /\ aiData \in { ErrorData,
                           [kind |-> "explanation",
                            component |-> activeComponent] }
           /\ ~isLoading
\* C31: each accepted chat submission appends exactly one user message
\* followed by one model placeholder, and every later chunk or error update of
\* that submission modifies only that placeholder: all other messages of the
\* transcript keep their content and position, whatever clock values were
\* used for the message ids.
C31_UpdatesOnlyOwnPlaceholder ==
    [][ /\ chatEvent'.name = "accepted"
            => /\ Len(messages') = Len(messages) + 2
               /\ SubSeq(messages', 1, Len(messages)) = messages
               /\ messages'[Len(messages) + 1].role = "user"
               /\ messages'[Len(messages) + 1].content = input
               /\ messages'[Len(messages) + 2].role = "model"
               /\ messages'[Len(messages) + 2].content = <<>>
               /\ messages'[Len(messages) + 2].isLoading
        /\ (chatEvent'.name \in {"chunk", "failed"} /\ chatEvent'.live)
            => \A run \in runs \ runs' :
                   /\ Len(messages') = Len(messages)
                   /\ \A i \in DOMAIN messages :
                          i # run.pos => messages'[i] = messages[i] ]_vars
\* C32: assuming the collaborator eventually completes or fails every stream,
\* each accepted chat submission is eventually followed by isStreaming = false,
\* on normal completion and on failure alike; after that a new non-empty
\* submission is accepted (a submission is rejected only for an empty input or
\* a stream in progress); a submission with empty or whitespace-only input is
\* never accepted.
C32_SubmissionSettles ==
    /\ (chatEvent.name = "accepted" /\ isStreaming) ~> ~isStreaming
    /\ [][ /\ (chatEvent'.name \in {"ended", "failed"} /\ chatEvent'.live)
               => ~isStreaming'
           /\ chatEvent'.name = "accepted"
               => /\ trim(input) # <<>>
                  /\ ~isStreaming
                  /\ isStreaming'
           /\ chatEvent'.name = "rejected"
               => (trim(input) = <<>> \/ isStreaming) ]_vars

\* a second submission has been accepted after the stream of the first one
\* failed
C32_Witness ==
    /\ chatEvent.name = "accepted"
    /\ isStreaming
    /\ Len(messages) = 4
    /\ messages[2].content = ErrorText
    /\ messages[2].isLoading = FALSE
    /\ messages[4].isLoading
====
